---- MODULE Spec2Model ----
(***************************************************************************)
(* Model of src/template/main.py: the daily and weekly commit-series       *)
(* builders, the rolling average, the day-over-day percentage change and   *)
(* the per-country loading loops of the plot functions.                    *)
(*                                                                         *)
(* Representation                                                          *)
(*   date string "YYYY-MM-DD"   <<y, m, d>>  (compared field by field,     *)
(*                              which is the order of the zero-padded text)*)
(*   datetime (at midnight)     its proleptic Gregorian ordinal            *)
(*   week key "YYYY-Www"        <<y, tens digit, units digit>>             *)
(*   float                      a reduced fraction <<n, d>> with d > 0,    *)
(*                              NaN as <<0, 0>>                            *)
(*   a call                     [raised |-> exception name or "none",      *)
(*                               value  |-> what it returned]              *)
(***************************************************************************)
EXTENDS Integers, Sequences, FiniteSets

\* ------------------------------------------------------------------ bounds

\* largest commit count of one record
MaxCount == 2
\* largest number of (user, date) records in one input file
MaxRecords == 2
\* window sizes tried are MinWindow .. MaxWindow
MaxWindow == 2
\* longest sequence handed to the rolling average on its own
MaxLen == 4
\* largest element of such a sequence
MaxVal == 4

\* window_size defaults to 7 (load_and_process_data, plot_* functions)
DefaultWindow == 7

\* ------------------------------------------------------ floats as fractions

Abs(x) == IF x < 0 THEN -x ELSE x

RECURSIVE Gcd(_, _)
Gcd(a, b) == IF b = 0 THEN a ELSE Gcd(b, a % b)

NaN == <<0, 0>>

IsNaN(q) == q[2] = 0

\* the float n / d
Frac(n, d) ==
  IF d = 0 THEN NaN
  ELSE LET g == Gcd(Abs(n), Abs(d))
           s == IF d < 0 THEN -1 ELSE 1
       IN  <<(s * n) \div g, (s * d) \div g>>

FromInt(n) == <<n, 1>>

FSub(a, b) == IF IsNaN(a) \/ IsNaN(b) THEN NaN
              ELSE Frac(a[1] * b[2] - b[1] * a[2], a[2] * b[2])

\* a / b for b # 0
FDiv(a, b) == IF IsNaN(a) \/ IsNaN(b) THEN NaN
              ELSE Frac(a[1] * b[2], a[2] * b[1])

FMul(a, b) == IF IsNaN(a) \/ IsNaN(b) THEN NaN
              ELSE Frac(a[1] * b[1], a[2] * b[2])

\* Python's x != 0 and x == 0 on a float: NaN != 0 is True
FNonZero(a) == IsNaN(a) \/ a[1] # 0
FIsZero(a) == ~IsNaN(a) /\ a[1] = 0

\* Python's a > b on floats: False when either is NaN
FGreater(a, b) == ~IsNaN(a) /\ ~IsNaN(b) /\ a[1] * b[2] > b[1] * a[2]

RECURSIVE SumSeq(_)
SumSeq(s) == IF Len(s) = 0 THEN 0 ELSE s[1] + SumSeq(Tail(s))

\* np.mean of a list of ints: NaN (and a warning, not an exception) when empty
np_mean(s) == IF Len(s) = 0 THEN NaN ELSE Frac(SumSeq(s), Len(s))

\* ---------------------------------------------------------- Python slicing

Min2(a, b) == IF a < b THEN a ELSE b
Max2(a, b) == IF a > b THEN a ELSE b

\* s[lo:hi] with Python's 0-based, end-exclusive, clamped indices
Slice(s, lo, hi) ==
  LET n == Len(s)
      l == IF lo < 0 THEN Max2(0, n + lo) ELSE Min2(lo, n)
      h == IF hi < 0 THEN Max2(0, n + hi) ELSE Min2(hi, n)
  IN  IF l >= h THEN <<>> ELSE SubSeq(s, l + 1, h)

\* ------------------------------------------------------- rolling average

\* a variant that gives an entry only where the window is full
RollingAverageFullWindows(data_series, window_size) ==
  [k \in 1..Max2(0, Len(data_series) - Max2(1, window_size) + 1) |->
      np_mean(Slice(data_series, k - 1, k - 1 + Max2(1, window_size)))]

\* a variant whose full window starts one element early
RollingAverageOneEarly(data_series, window_size) ==
  IF Len(data_series) = 0 THEN <<>>
  ELSE [k \in 1..Len(data_series) |->
          LET i == k - 1
          IN  IF i < window_size - 1
              THEN np_mean(Slice(data_series, 0, i + 1))
              ELSE np_mean(Slice(data_series, i - window_size, i + 1))]

\* calculate_rolling_average(data_series, window_size): entry i is np.mean of
\* data_series[:i+1] while i < window_size - 1, of
\* data_series[i-window_size+1:i+1] afterwards
calculate_rolling_average(data_series, window_size) ==
  IF Len(data_series) = 0 THEN <<>>
  ELSE [k \in 1..Len(data_series) |->
          LET i == k - 1
          IN  IF i < window_size - 1
              THEN np_mean(Slice(data_series, 0, i + 1))
              ELSE np_mean(Slice(data_series, i - window_size + 1, i + 1))]

\* ------------------------------------------------- the calendar (datetime)

is_leap(y) == y % 4 = 0 /\ (y % 100 # 0 \/ y % 400 = 0)

days_in_month(y, m) ==
  IF m = 2 THEN (IF is_leap(y) THEN 29 ELSE 28)
  ELSE IF m \in {4, 6, 9, 11} THEN 30 ELSE 31

RECURSIVE days_before_month(_, _)
days_before_month(y, m) ==
  IF m <= 1 THEN 0 ELSE days_before_month(y, m - 1) + days_in_month(y, m - 1)

days_before_year(y) ==
  LET p == y - 1 IN p * 365 + (p \div 4) - (p \div 100) + (p \div 400)

\* datetime(y, m, d).toordinal()
ymd2ord(y, m, d) == days_before_year(y) + days_before_month(y, m) + d

DI4Y == 4 * 365 + 1
DI100Y == 25 * DI4Y - 1
DI400Y == 4 * DI100Y + 1

\* the last steps of fromordinal: the month, then the day, of day n of a year
OrdDay(year, n, month) == <<year, month, n - days_before_month(year, month) + 1>>

OrdMonth(year, n, estimate) ==
  OrdDay(year, n,
         IF days_before_month(year, estimate) > n THEN estimate - 1 ELSE estimate)

OrdYear(year, n1, n100, n) ==
  IF n1 = 4 \/ n100 = 4 THEN <<year - 1, 12, 31>>
  ELSE OrdMonth(year, n, (n + 50) \div 32)

\* the 400-, 100-, 4- and 1-year cycles before day r of a 4-year cycle
Ord4(n400, n100, n4, r) ==
  OrdYear(n400 * 400 + 1 + n100 * 100 + n4 * 4 + (r \div 365),
          r \div 365, n100, r % 365)

Ord100(n400, n100, r) == Ord4(n400, n100, r \div DI4Y, r % DI4Y)

Ord400(n400, r) == Ord100(n400, r \div DI100Y, r % DI100Y)

\* datetime.fromordinal(n) as <<year, month, day>>
ord2ymd(ordinal) == Ord400((ordinal - 1) \div DI400Y, (ordinal - 1) % DI400Y)

\* what strptime(text, "%Y-%m-%d") accepts: a month and a day of that month
IsDate(fecha_str) ==
  /\ fecha_str[2] \in 1..12
  /\ fecha_str[3] \in 1..days_in_month(fecha_str[1], fecha_str[2])

\* dt.datetime.strptime(fecha_str, "%Y-%m-%d"); ValueError unless IsDate
strptime(fecha_str) == ymd2ord(fecha_str[1], fecha_str[2], fecha_str[3])

\* date.strftime("%Y-%m-%d")
strftime(date) == ord2ymd(date)

\* Monday of ISO week 1 of a year (the week holding the year's first Thursday)
Week1Monday(firstday, firstweekday) ==
  IF firstweekday > 3 THEN firstday - firstweekday + 7
  ELSE firstday - firstweekday

Week1MondayFrom(firstday) == Week1Monday(firstday, (firstday + 6) % 7)

isoweek1monday(year) == Week1MondayFrom(ymd2ord(year, 1, 1))

\* the week and weekday of a date counted from the Monday of week 1
IsoIn(year, days) == <<year, (days \div 7) + 1, (days % 7) + 1>>

IsoWeek(date, year, week1monday) ==
  IF date < week1monday
  THEN IsoIn(year - 1, date - isoweek1monday(year - 1))
  ELSE IF (date - week1monday) \div 7 >= 52 /\ date >= isoweek1monday(year + 1)
  THEN <<year + 1, 1, ((date - week1monday) % 7) + 1>>
  ELSE IsoIn(year, date - week1monday)

IsoYear(date, year) == IsoWeek(date, year, isoweek1monday(year))

\* date.isocalendar() as <<ISO year, ISO week, ISO weekday>>
isocalendar(date) == IsoYear(date, ord2ymd(date)[1])

\* ------------------------------------------------------------------ strings

\* f"{year}-W{week:02d}"
WeekKey(year, week) == <<year, week \div 10, week % 10>>

\* week_key.split('-W') followed by int() of both parts
WeekKeyYear(week_key) == week_key[1]
WeekKeyNum(week_key) == week_key[2] * 10 + week_key[3]

\* s < t for two strings of the same layout, written as tuples of fields
RECURSIVE StrLess(_, _)
StrLess(s, t) ==
  IF Len(s) = 0 \/ Len(t) = 0 THEN Len(s) < Len(t)
  ELSE IF s[1] # t[1] THEN s[1] < t[1]
  ELSE StrLess(Tail(s), Tail(t))

\* sorted(keys): the keys of a dict are distinct
RECURSIVE sorted(_)
SortedFrom(keys, least) == <<least>> \o sorted(keys \ {least})

sorted(keys) ==
  IF keys = {} THEN <<>>
  ELSE SortedFrom(keys, CHOOSE k \in keys : \A o \in keys \ {k} : StrLess(k, o))

\* --------------------------------------------------------------- the input

\* a file is [kind |-> "missing"], [kind |-> "unparsable"] or
\* [kind |-> "object", data |-> user_id -> stats]
Returned(v) == [raised |-> "none", value |-> v]
Raised(exc) == [raised |-> exc, value |-> <<>>]

\* open(json_file) and json.load(f): the exception raised, "none" if it loads
json_load(file) ==
  IF file.kind = "missing" THEN "FileNotFoundError"
  ELSE IF file.kind = "unparsable" THEN "JSONDecodeError"
  ELSE "none"

\* a count as json.load gives it: an int, or a str for a JSON string
JsonNumber(n) == [type |-> "int", n |-> n]
JsonString == [type |-> "str", n |-> 0]

\* stats.get("daily_commits", {})
DailyCommits(stats) ==
  IF "daily_commits" \in DOMAIN stats THEN stats.daily_commits
  ELSE [f \in {} |-> JsonNumber(0)]

\* one (user_id, fecha_str, cnt) the loops visit; cnt_type is type(cnt)
Record(user_id, fecha_str, cnt) ==
  [user_id |-> user_id, fecha_str |-> fecha_str, cnt |-> cnt.n,
   cnt_type |-> cnt.type]

\* the (user_id, fecha_str, cnt) triples the two nested loops visit
Records(data) ==
  UNION {{Record(u, f, DailyCommits(data[u])[f])
            : f \in DOMAIN DailyCommits(data[u])} : u \in DOMAIN data}

RECURSIVE SumCnt(_)
SumCnt(records) ==
  IF records = {} THEN 0
  ELSE LET r == CHOOSE x \in records : TRUE
       IN  r.cnt + SumCnt(records \ {r})

\* a variant catching FileNotFoundError alone, as the loops do
ExceptFileNotFound(exc) == exc = "FileNotFoundError"

\* except Exception as e: every exception of the try block is an Exception
ExceptException(exc) ==
  exc \in {"FileNotFoundError", "JSONDecodeError", "ValueError", "TypeError"}

\* a variant whose except clause prints and raises again
ExceptReraises(outcome, empty) == outcome

\* the except clause of both builders: print, and return `empty`
Except(outcome, empty) ==
  IF outcome.raised = "none" THEN outcome
  ELSE IF ExceptException(outcome.raised) THEN Returned(empty)
  ELSE outcome

\* ------------------------------------------------------- the daily builder

\* a variant without the raw lists, as the dict of the loop of plot_daily_activity
EmptyDailyWithoutRaw ==
  [fechas |-> <<>>, commits_rolling_avg |-> <<>>, users_rolling_avg |-> <<>>]

EmptyDaily ==
  [fechas |-> <<>>, commits_rolling_avg |-> <<>>, users_rolling_avg |-> <<>>,
   raw_commits |-> <<>>, raw_users |-> <<>>]

\* a variant that skips the records of count 0
CommitsByDayWithoutZero(records) ==
  [f \in {r.fecha_str : r \in {x \in records : x.cnt > 0}} |->
      SumCnt({r \in records : r.fecha_str = f})]

\* commits_by_day after the loops: commits_by_day[fecha_str] += cnt
commits_by_day(records) ==
  [f \in {r.fecha_str : r \in records} |->
      SumCnt({r \in records : r.fecha_str = f})]

\* a variant counting every user of the file on every day that has a record
ActiveUsersEveryDay(records) ==
  [f \in {r.fecha_str : r \in records} |-> {r.user_id : r \in records}]

\* a variant adding the user whatever the count
ActiveUsersAnyCount(records) ==
  [f \in {r.fecha_str : r \in records} |->
      {r.user_id : r \in {x \in records : x.fecha_str = f}}]

\* active_users_by_day after the loops: a key only where some cnt > 0
active_users_by_day(records) ==
  [f \in {r.fecha_str : r \in {x \in records : x.cnt > 0}} |->
      {r.user_id : r \in {x \in records : x.fecha_str = f /\ x.cnt > 0}}]

\* len(by_key[key]) on a defaultdict(set)
ActiveLen(by_key, key) ==
  IF key \in DOMAIN by_key THEN Cardinality(by_key[key]) ELSE 0

\* a variant whose while loop stops before end_date_fill
DateRangeExclusive(current_date_fill, end_date_fill) ==
  [i \in 1..(end_date_fill - current_date_fill) |-> current_date_fill + i - 1]

\* the while loop: every day from current_date_fill up to end_date_fill
DateRange(current_date_fill, end_date_fill) ==
  [i \in 1..(end_date_fill - current_date_fill + 1) |-> current_date_fill + i - 1]

\* one value of complete_counts: the real value, or zero for a day without data
CompleteCount(by_day, date_str) ==
  IF date_str \in DOMAIN by_day THEN by_day[date_str] ELSE 0

\* one value of complete_users
CompleteUser(by_day, users_by_day, date_str) ==
  IF date_str \in DOMAIN by_day THEN ActiveLen(users_by_day, date_str) ELSE 0

CompleteCounts(by_day, date_range) ==
  [i \in 1..Len(date_range) |-> CompleteCount(by_day, strftime(date_range[i]))]

CompleteUsers(by_day, users_by_day, date_range) ==
  [i \in 1..Len(date_range) |->
      CompleteUser(by_day, users_by_day, strftime(date_range[i]))]

\* a variant averaging the commits for both rolling lists
DailyResultOneAverage(fechas_dt, counts, active_users, window_size) ==
  Returned([fechas |-> fechas_dt,
            commits_rolling_avg |-> calculate_rolling_average(counts, window_size),
            users_rolling_avg |-> calculate_rolling_average(counts, window_size),
            raw_commits |-> counts,
            raw_users |-> active_users])

\* the rolling averages and the returned dict
DailyResult(fechas_dt, counts, active_users, window_size) ==
  Returned([fechas |-> fechas_dt,
            commits_rolling_avg |-> calculate_rolling_average(counts, window_size),
            users_rolling_avg |-> calculate_rolling_average(active_users, window_size),
            raw_commits |-> counts,
            raw_users |-> active_users])

\* the series completed over date_range
DailyComplete(by_day, users_by_day, date_range, window_size) ==
  DailyResult(date_range, CompleteCounts(by_day, date_range),
              CompleteUsers(by_day, users_by_day, date_range), window_size)

\* from the sorted date strings on
DailyFill(by_day, users_by_day, fechas, window_size) ==
  IF Len(fechas) = 0 THEN Returned(EmptyDaily)
  ELSE IF Len(fechas) > 1
  THEN DailyComplete(by_day, users_by_day,
                     DateRange(strptime(fechas[1]), strptime(fechas[Len(fechas)])),
                     window_size)
  ELSE DailyResult([i \in 1..Len(fechas) |-> strptime(fechas[i])],
                   [i \in 1..Len(fechas) |-> by_day[fechas[i]]],
                   [i \in 1..Len(fechas) |-> ActiveLen(users_by_day, fechas[i])],
                   window_size)

DailySorted(by_day, users_by_day, window_size) ==
  DailyFill(by_day, users_by_day, sorted(DOMAIN by_day), window_size)

\* a variant whose loop body skips a record that raises
DailyLoopsSkipping(records, window_size) ==
  DailySorted(
    commits_by_day({r \in records : IsDate(r.fecha_str) /\ r.cnt_type = "int"}),
    active_users_by_day({r \in records : IsDate(r.fecha_str) /\ r.cnt_type = "int"}),
    window_size)

\* the two nested loops: strptime raises on a key that names no day, and
\* `+= cnt` on a cnt that is a str
DailyLoops(records, window_size) ==
  IF \E r \in records : ~IsDate(r.fecha_str) THEN Raised("ValueError")
  ELSE IF \E r \in records : r.cnt_type # "int" THEN Raised("TypeError")
  ELSE DailySorted(commits_by_day(records), active_users_by_day(records),
                   window_size)

\* the try block of load_and_process_data
DailyTry(file, window_size) ==
  IF json_load(file) # "none" THEN Raised(json_load(file))
  ELSE DailyLoops(Records(file.data), window_size)

load_and_process_data(file, window_size) ==
  Except(DailyTry(file, window_size), EmptyDaily)

\* ------------------------------------------------------ the weekly builder

EmptyWeekly ==
  [fechas |-> <<>>, commits |-> <<>>, active_users |-> <<>>, week_labels |-> <<>>]

\* year, week, _ = date_obj.isocalendar(); week_key = f"{year}-W{week:02d}"
IsoWeekKey(iso) == WeekKey(iso[1], iso[2])

\* every record with the week_key of its date
WithWeekKey(records) ==
  {[user_id |-> r.user_id, fecha_str |-> r.fecha_str, cnt |-> r.cnt,
    week_key |-> IsoWeekKey(isocalendar(strptime(r.fecha_str)))] : r \in records}

commits_by_week(keyed) ==
  [k \in {r.week_key : r \in keyed} |-> SumCnt({r \in keyed : r.week_key = k})]

active_users_by_week(keyed) ==
  [k \in {r.week_key : r \in {x \in keyed : x.cnt > 0}} |->
      {r.user_id : r \in {x \in keyed : x.week_key = k /\ x.cnt > 0}}]

\* f"{year}-{week_num}-1", piece by piece
WeekDateText(year, week_num) == <<year, "-", week_num, "-", 1>>

\* the format "%G-W%V-%u", piece by piece
WeekDateFormat == <<"%G", "-W", "%V", "-", "%u">>

\* strptime matches the literal pieces of the format against the text
MatchesFormat(text, format) ==
  /\ Len(text) = Len(format)
  /\ text[2] = format[2]
  /\ text[4] = format[4]
  /\ text[3] \in 1..53
  /\ text[5] \in 1..7

\* the datetime strptime builds from the %G, %V and %u of a text
FromIsoText(text) == isoweek1monday(text[1]) + (text[3] - 1) * 7 + (text[5] - 1)

\* the text strptime is given for one week label
WeekText(week_key) == WeekDateText(WeekKeyYear(week_key), WeekKeyNum(week_key))

\* the date of one week label
WeekDate(week_key) == FromIsoText(WeekText(week_key))

\* strptime raises ValueError on a text that does not match the format
WeekDatesRaise(weeks) ==
  \E i \in 1..Len(weeks) : ~MatchesFormat(WeekText(weeks[i]), WeekDateFormat)

\* from the sorted week labels on
WeeklyDates(by_week, users_by_week, weeks) ==
  IF Len(weeks) = 0 THEN Returned(EmptyWeekly)
  ELSE IF WeekDatesRaise(weeks) THEN Raised("ValueError")
  ELSE Returned(
         [fechas |-> [i \in 1..Len(weeks) |-> WeekDate(weeks[i])],
          commits |-> [i \in 1..Len(weeks) |-> by_week[weeks[i]]],
          active_users |->
            [i \in 1..Len(weeks) |-> ActiveLen(users_by_week, weeks[i])],
          week_labels |-> weeks])

WeeklySorted(by_week, users_by_week) ==
  WeeklyDates(by_week, users_by_week, sorted(DOMAIN by_week))

WeeklyAggregate(keyed) ==
  WeeklySorted(commits_by_week(keyed), active_users_by_week(keyed))

\* the two nested loops: strptime raises on a key that names no day, and
\* `+= cnt` on a cnt that is a str
WeeklyLoops(records) ==
  IF \E r \in records : ~IsDate(r.fecha_str) THEN Raised("ValueError")
  ELSE IF \E r \in records : r.cnt_type # "int" THEN Raised("TypeError")
  ELSE WeeklyAggregate(WithWeekKey(records))

\* the try block of calculate_weekly_data
WeeklyTry(file) ==
  IF json_load(file) # "none" THEN Raised(json_load(file))
  ELSE WeeklyLoops(Records(file.data))

calculate_weekly_data(file) == Except(WeeklyTry(file), EmptyWeekly)

\* ------------------------------------------------------ percentage change

\* a variant without the sentinel: any change from zero counts as 0
ChangeNoSentinel(today, yesterday) ==
  IF FNonZero(yesterday)
  THEN FMul(FDiv(FSub(today, yesterday), yesterday), FromInt(100))
  ELSE FromInt(0)

\* one day-over-day change of plot_percentage_change
Change(today, yesterday) ==
  IF FNonZero(yesterday)
  THEN FMul(FDiv(FSub(today, yesterday), yesterday), FromInt(100))
  ELSE IF FIsZero(today) THEN FromInt(0)
  ELSE FromInt(100)

\* a variant dating every change by the day before
FechasPctDayBefore(country_data) ==
  [k \in 1..(Len(country_data.commits_rolling_avg) - 1) |-> country_data.fechas[k]]

\* fechas_pct: the date of index i for every i in range(1, n)
FechasPct(country_data) ==
  [k \in 1..(Len(country_data.commits_rolling_avg) - 1) |-> country_data.fechas[k + 1]]

\* the all_data entry plot_percentage_change derives from one loaded series
PercentageChange(country_data) ==
  IF Len(country_data.fechas) = 0 \/ Len(country_data.commits_rolling_avg) = 0
  THEN [fechas |-> <<>>, pct_change |-> <<>>]
  ELSE [fechas |-> FechasPct(country_data),
        pct_change |->
          [k \in 1..(Len(country_data.commits_rolling_avg) - 1) |->
              Change(country_data.commits_rolling_avg[k + 1],
                     country_data.commits_rolling_avg[k])]]

\* Python's max(a, b) and min(a, b): the first argument unless the second beats it
PyMax(a, b) == IF FGreater(b, a) THEN b ELSE a
PyMin(a, b) == IF FGreater(a, b) THEN b ELSE a

RECURSIVE MaxOf(_)
MaxOf(s) == IF Len(s) = 1 THEN s[1]
            ELSE PyMax(MaxOf(SubSeq(s, 1, Len(s) - 1)), s[Len(s)])

RECURSIVE MinOf(_)
MinOf(s) == IF Len(s) = 1 THEN s[1]
            ELSE PyMin(MinOf(SubSeq(s, 1, Len(s) - 1)), s[Len(s)])

Floats(ints) == [i \in 1..Len(ints) |-> FromInt(ints[i])]

\* max(overall, max(series)) when the series is not empty
UpdateMax(overall, series) ==
  IF Len(series) = 0 THEN overall ELSE PyMax(overall, MaxOf(series))

UpdateMin(overall, series) ==
  IF Len(series) = 0 THEN overall ELSE PyMin(overall, MinOf(series))

\* all_data[country] = entry
Put(dict, key, entry) ==
  [k \in DOMAIN dict \cup {key} |-> IF k = key THEN entry ELSE dict[k]]

\* ------------------------- the daily builder, record by record, in file order

\* the two dicts before the loops; `keys` is the order in which
\* commits_by_day got its keys, the order commits_by_day.keys() has
LoopStart ==
  [raised |-> "none", keys |-> <<>>,
   commits_by_day |-> [f \in {} |-> 0],
   active_users_by_day |-> [f \in {} |-> {}]]

\* defaultdict(int)[key] and defaultdict(set)[key]
GetInt(dict, key) == IF key \in DOMAIN dict THEN dict[key] ELSE 0
GetSet(dict, key) == IF key \in DOMAIN dict THEN dict[key] ELSE {}

\* commits_by_day[fecha_str]: a new key goes to the end of the dict
KeysWith(keys, dict, key) ==
  IF key \in DOMAIN dict THEN keys ELSE Append(keys, key)

\* commits_by_day[fecha_str] += cnt of a cnt that is a str: the key is there
\* when the addition raises
AddRaises(st, r) ==
  [raised |-> "TypeError",
   keys |-> KeysWith(st.keys, st.commits_by_day, r.fecha_str),
   commits_by_day |->
     Put(st.commits_by_day, r.fecha_str, GetInt(st.commits_by_day, r.fecha_str)),
   active_users_by_day |-> st.active_users_by_day]

\* commits_by_day[fecha_str] += cnt, and the user added if cnt > 0
AddRecord(st, r) ==
  [raised |-> "none",
   keys |-> KeysWith(st.keys, st.commits_by_day, r.fecha_str),
   commits_by_day |->
     Put(st.commits_by_day, r.fecha_str,
         GetInt(st.commits_by_day, r.fecha_str) + r.cnt),
   active_users_by_day |->
     IF r.cnt > 0
     THEN Put(st.active_users_by_day, r.fecha_str,
              GetSet(st.active_users_by_day, r.fecha_str) \cup {r.user_id})
     ELSE st.active_users_by_day]

\* the body of the inner loop for one record
LoopBody(st, r) ==
  IF ~IsDate(r.fecha_str) THEN [st EXCEPT !.raised = "ValueError"]
  ELSE IF r.cnt_type # "int" THEN AddRaises(st, r)
  ELSE AddRecord(st, r)

\* the loops over the records in the order `items`, up to the first raise
RECURSIVE LoopsOver(_, _)
LoopsOver(st, items) ==
  IF Len(items) = 0 \/ st.raised # "none" THEN st
  ELSE LoopsOver(LoopBody(st, Head(items)), Tail(items))

\* a variant that takes the keys in the order of the dict
KeysAsInserted(keys) == keys

\* fechas = sorted(commits_by_day.keys())
SortedKeys(keys) == sorted({keys[i] : i \in 1..Len(keys)})

\* from the end of the loops on
AfterLoops(st, window_size) ==
  IF st.raised # "none" THEN Raised(st.raised)
  ELSE DailyFill(st.commits_by_day, st.active_users_by_day,
                 SortedKeys(st.keys), window_size)

\* the try block, the loops going through the records in the order `items`
DailyTryInOrder(file, items, window_size) ==
  IF json_load(file) # "none" THEN Raised(json_load(file))
  ELSE AfterLoops(LoopsOver(LoopStart, items), window_size)

\* load_and_process_data on a file whose members come in the order `items`
load_and_process_data_in_order(file, items, window_size) ==
  Except(DailyTryInOrder(file, items, window_size), EmptyDaily)

\* ------------------------------------------------------------ input spaces

\* countries=["Bangladesh", "India", "Philippines"]
Countries == <<"Bangladesh", "India", "Philippines">>

Users == {"u1", "u2"}

Counts == 0..MaxCount

\* the date keys of one input file come from one of these groups of days:
\* a year's end, the days around a leap day, a year's end whose last days
\* belong to ISO week 1 of the next year, a year's start whose first days
\* belong to ISO week 53 of the year before, and a group with the key
\* "2023-02-29", which names no day
DateKeyGroups ==
  {{<<2023, 12, 31>>, <<2024, 1, 1>>, <<2024, 1, 3>>},
   {<<2024, 2, 28>>, <<2024, 3, 1>>, <<2024, 3, 4>>},
   {<<2024, 12, 29>>, <<2024, 12, 30>>, <<2025, 1, 1>>},
   {<<2021, 1, 3>>, <<2021, 1, 4>>, <<2021, 1, 6>>},
   {<<2023, 2, 28>>, <<2023, 2, 29>>, <<2023, 3, 1>>}}

\* the JSON object holding the records `cells` (user, date) with counts `cf`
ObjectData(cells, cf) ==
  [u \in {c[1] : c \in cells} |->
     [daily_commits |->
        [f \in {c[2] : c \in {x \in cells : x[1] = u}} |-> cf[<<u, f>>]]]]

\* the object holding integer counts
NumberData(cells, cf) == ObjectData(cells, [c \in cells |-> JsonNumber(cf[c])])

CellSets ==
  UNION {{S \in SUBSET (Users \X K) : Cardinality(S) \in 1..MaxRecords}
           : K \in DateKeyGroups}

\* objects without any record: {}, users without "daily_commits", users
\* whose "daily_commits" is {}
NoRecordData ==
  {[u \in {} |-> 0],
   [u \in Users |-> [login |-> u]],
   [u \in Users |-> [daily_commits |-> [f \in {} |-> JsonNumber(0)]]]}

\* objects one of whose counts is a string: alone, and next to a valid record
\* of the same user or of the other one
StringCells ==
  {{<<"u1", <<2024, 1, 1>>>>},
   {<<"u1", <<2024, 1, 1>>>>, <<"u1", <<2024, 1, 3>>>>},
   {<<"u1", <<2024, 1, 1>>>>, <<"u2", <<2023, 12, 31>>>>}}

StringCountData ==
  {ObjectData(S, [c \in S |-> IF c = <<"u1", <<2024, 1, 1>>>>
                               THEN JsonString ELSE JsonNumber(MaxCount)])
     : S \in StringCells}

InputData ==
  NoRecordData \cup StringCountData \cup
  UNION {{NumberData(S, cf) : cf \in [S -> Counts]} : S \in CellSets}

MissingFile == [kind |-> "missing", data |-> [u \in {} |-> 0]]
UnparsableFile == [kind |-> "unparsable", data |-> [u \in {} |-> 0]]
ObjectFile(data) == [kind |-> "object", data |-> data]

InputFiles ==
  {MissingFile, UnparsableFile} \cup {ObjectFile(d) : d \in InputData}

\* the files of the loops over several countries: a few of each kind
LoopData ==
  {[u \in {} |-> 0],
   NumberData({<<"u1", <<2024, 1, 1>>>>}, [c \in {<<"u1", <<2024, 1, 1>>>>} |-> 1]),
   NumberData({<<"u1", <<2024, 1, 1>>>>, <<"u2", <<2024, 1, 3>>>>},
              [c \in {<<"u1", <<2024, 1, 1>>>>, <<"u2", <<2024, 1, 3>>>>} |-> 2]),
   NumberData({<<"u1", <<2023, 2, 29>>>>}, [c \in {<<"u1", <<2023, 2, 29>>>>} |-> 1])}

LoopFiles ==
  {MissingFile, UnparsableFile} \cup {ObjectFile(d) : d \in LoopData}

\* the counts of the files the builder is run on twice
RunCounts == {0, MaxCount}

RunData ==
  NoRecordData \cup StringCountData \cup
  UNION {{NumberData(S, cf) : cf \in [S -> RunCounts]} : S \in CellSets}

RunFiles == {MissingFile, UnparsableFile} \cup {ObjectFile(d) : d \in RunData}

\* the orders in which the elements of a set can come
Orderings(S) ==
  {s \in [1..Cardinality(S) -> S] : \A i, j \in 1..Cardinality(S) : s[i] = s[j] => i = j}

\* the records of one user come one after the other: the loop over the
\* users is the outer one
UserByUser(items) ==
  \A i, j, k \in 1..Len(items) :
     (i < j /\ j < k /\ items[i].user_id = items[k].user_id)
        => items[j].user_id = items[i].user_id

\* the orders in which data.items() and daily_commits.items() can give the
\* records of a file: every order of the members of the two JSON objects
ItemOrders(file) ==
  IF file.kind # "object" THEN {<<>>}
  ELSE {items \in Orderings(Records(file.data)) : UserByUser(items)}

Windows == (0 - 1)..MaxWindow

\* sequences of length n over 0..MaxVal
SeqsOfLen(n) == [1..n -> 0..MaxVal]

SeriesInputs == UNION {SeqsOfLen(n) : n \in 0..MaxLen}

\* -------------------------------------------------------------------- state

VARIABLES
  files,        \* country -> the content of {data_dir}/{country}_data.json
  countries,    \* the countries argument of the call
  plot,         \* the plot function running, "none" outside the loops
  window_size,  \* the window_size argument
  data_series,  \* the data_series argument of calculate_rolling_average
  pc,           \* where the caller is
  daily,        \* what load_and_process_data gave its caller
  weekly,       \* what calculate_weekly_data gave its caller
  rolling,      \* what calculate_rolling_average gave its caller
  all_data,     \* all_data of the running plot function
  idx,          \* how many countries the for loop has been through
  visited,      \* the countries the loop body ran for, in order
  max_commits_overall,
  max_users_overall,
  min_pct_change,
  max_pct_change,
  runs          \* the runs of load_and_process_data on the file: the order
                \* of its members and what the caller got

vars == <<files, countries, plot, window_size, data_series, pc, daily, weekly,
          rolling, all_data, idx, visited, max_commits_overall,
          max_users_overall, min_pct_change, max_pct_change, runs>>

loopVars == <<all_data, idx, visited, max_commits_overall, max_users_overall,
              min_pct_change, max_pct_change>>

NotCalled == [raised |-> "not called", value |-> <<>>]

InitLoopVars ==
  /\ all_data = [c \in {} |-> 0]
  /\ idx = 0
  /\ visited = <<>>
  /\ max_commits_overall = FromInt(0)
  /\ max_users_overall = FromInt(0)
  /\ min_pct_change = FromInt(0)
  /\ max_pct_change = FromInt(0)

InitCalls ==
  /\ daily = NotCalled
  /\ weekly = NotCalled
  /\ rolling = NotCalled
  /\ runs = <<>>

\* ------------------------------------------- the two builders on one file

Init ==
  /\ files \in [{Countries[1]} -> InputFiles]
  /\ countries = <<Countries[1]>>
  /\ plot = "none"
  /\ window_size = DefaultWindow
  /\ data_series = <<>>
  /\ pc = "start"
  /\ InitCalls
  /\ InitLoopVars

\* country_data = calculate_weekly_data(json_file)
CallWeekly ==
  /\ pc = "start"
  /\ weekly' = calculate_weekly_data(files[countries[1]])
  /\ pc' = "weekly"
  /\ UNCHANGED <<files, countries, plot, window_size, data_series, daily,
                 rolling, loopVars, runs>>

\* country_data = load_and_process_data(json_file, window_size)
CallDaily ==
  /\ pc = "weekly"
  /\ \E w \in 0..MaxWindow \cup {DefaultWindow} :
       /\ window_size' = w
       /\ daily' = load_and_process_data(files[countries[1]], w)
  /\ pc' = "daily"
  /\ UNCHANGED <<files, countries, plot, data_series, weekly, rolling, loopVars, runs>>

Next == CallWeekly \/ CallDaily

Spec == Init /\ [][Next]_vars

\* ------------------------------------------- the rolling average on its own

InitRoll ==
  /\ files = [c \in {} |-> 0]
  /\ countries = <<>>
  /\ plot = "none"
  /\ window_size \in Windows
  /\ data_series \in SeriesInputs
  /\ pc = "start"
  /\ InitCalls
  /\ InitLoopVars

\* rolling_avg = calculate_rolling_average(data_series, window_size)
CallRolling ==
  /\ pc = "start"
  /\ rolling' = Returned(calculate_rolling_average(data_series, window_size))
  /\ pc' = "rolled"
  /\ UNCHANGED <<files, countries, plot, window_size, data_series, daily,
                 weekly, loopVars, runs>>

NextRoll == CallRolling

SpecRoll == InitRoll /\ [][NextRoll]_vars

\* -------------------------- the daily builder run twice on one file content

InitRuns ==
  /\ files \in [{Countries[1]} -> RunFiles]
  /\ countries = <<Countries[1]>>
  /\ plot = "none"
  /\ window_size \in {MaxWindow, DefaultWindow}
  /\ data_series = <<>>
  /\ pc = "start"
  /\ InitCalls
  /\ InitLoopVars

\* country_data = load_and_process_data(json_file, window_size), the members
\* of the file coming in some order
RunDaily ==
  /\ pc \in {"start", "ran once"}
  /\ \E items \in ItemOrders(files[countries[1]]) :
       runs' = Append(runs,
                 [items |-> items,
                  result |-> load_and_process_data_in_order(
                               files[countries[1]], items, window_size)])
  /\ pc' = IF pc = "start" THEN "ran once" ELSE "ran twice"
  /\ UNCHANGED <<files, countries, plot, window_size, data_series, daily,
                 weekly, rolling, loopVars>>

NextRuns == RunDaily

SpecRuns == InitRuns /\ [][NextRuns]_vars

\* ------------------------------------------- the per-country loading loops

Plots == {"daily_activity", "daily_raw_activity", "percentage_change",
          "weekly_activity"}

\* the loop goes on with the next country, or is over
AfterBody == IF idx + 1 = Len(countries) THEN "plotting" ELSE "loading"

\* an exception no handler of the loop catches ends the plot function
Propagate ==
  /\ pc' = "aborted"
  /\ UNCHANGED <<all_data, max_commits_overall, max_users_overall,
                 min_pct_change, max_pct_change>>

\* the handler of the loops: except FileNotFoundError stores `empty`
Handle(country, call, empty) ==
  IF call.raised = "FileNotFoundError"
  THEN /\ all_data' = Put(all_data, country, empty)
       /\ pc' = AfterBody
       /\ UNCHANGED <<max_commits_overall, max_users_overall, min_pct_change,
                      max_pct_change>>
  ELSE Propagate

\* the try block of plot_daily_activity once the call returned
DailyActivityTry(country, call) ==
  IF call.raised = "none"
  THEN /\ all_data' = Put(all_data, country, call.value)
       /\ max_commits_overall' =
            UpdateMax(max_commits_overall, call.value.commits_rolling_avg)
       /\ max_users_overall' =
            UpdateMax(max_users_overall, call.value.users_rolling_avg)
       /\ pc' = AfterBody
       /\ UNCHANGED <<min_pct_change, max_pct_change>>
  ELSE Handle(country, call,
              [fechas |-> <<>>, commits_rolling_avg |-> <<>>,
               users_rolling_avg |-> <<>>])

\* one turn of the loop of plot_daily_activity
DailyActivityBody ==
  /\ plot = "daily_activity"
  /\ pc = "loading"
  /\ DailyActivityTry(countries[idx + 1],
                      load_and_process_data(files[countries[idx + 1]], window_size))
  /\ idx' = idx + 1
  /\ visited' = Append(visited, countries[idx + 1])
  /\ UNCHANGED <<files, countries, plot, window_size, data_series, daily,
                 weekly, rolling, runs>>

\* the try block of plot_daily_raw_activity once the call returned
DailyRawActivityTry(country, call) ==
  IF call.raised = "none"
  THEN /\ max_commits_overall' =
            UpdateMax(max_commits_overall, Floats(call.value.raw_commits))
       /\ max_users_overall' =
            UpdateMax(max_users_overall, Floats(call.value.raw_users))
       /\ all_data' = Put(all_data, country, call.value)
       /\ pc' = AfterBody
       /\ UNCHANGED <<min_pct_change, max_pct_change>>
  ELSE Handle(country, call,
              [fechas |-> <<>>, raw_commits |-> <<>>, raw_users |-> <<>>])

\* one turn of the loop of plot_daily_raw_activity (the default window_size)
DailyRawActivityBody ==
  /\ plot = "daily_raw_activity"
  /\ pc = "loading"
  /\ DailyRawActivityTry(countries[idx + 1],
                         load_and_process_data(files[countries[idx + 1]], DefaultWindow))
  /\ idx' = idx + 1
  /\ visited' = Append(visited, countries[idx + 1])
  /\ UNCHANGED <<files, countries, plot, window_size, data_series, daily,
                 weekly, rolling, runs>>

\* all_data[country] and the global limits, from the entry of the country
StorePercentageChange(country, entry) ==
  /\ all_data' = Put(all_data, country, entry)
  /\ min_pct_change' = UpdateMin(min_pct_change, entry.pct_change)
  /\ max_pct_change' = UpdateMax(max_pct_change, entry.pct_change)
  /\ pc' = AfterBody
  /\ UNCHANGED <<max_commits_overall, max_users_overall>>

\* the try block of plot_percentage_change once the call returned
PercentageChangeTry(country, call) ==
  IF call.raised = "none"
  THEN StorePercentageChange(country, PercentageChange(call.value))
  ELSE Handle(country, call, [fechas |-> <<>>, pct_change |-> <<>>])

\* one turn of the loop of plot_percentage_change
PercentageChangeBody ==
  /\ plot = "percentage_change"
  /\ pc = "loading"
  /\ PercentageChangeTry(countries[idx + 1],
                         load_and_process_data(files[countries[idx + 1]], window_size))
  /\ idx' = idx + 1
  /\ visited' = Append(visited, countries[idx + 1])
  /\ UNCHANGED <<files, countries, plot, window_size, data_series, daily,
                 weekly, rolling, runs>>

\* the try block of plot_weekly_activity once the call returned
WeeklyActivityTry(country, call) ==
  IF call.raised = "none"
  THEN /\ all_data' = Put(all_data, country, call.value)
       /\ max_commits_overall' =
            UpdateMax(max_commits_overall, Floats(call.value.commits))
       /\ max_users_overall' =
            UpdateMax(max_users_overall, Floats(call.value.active_users))
       /\ pc' = AfterBody
       /\ UNCHANGED <<min_pct_change, max_pct_change>>
  ELSE Handle(country, call, EmptyWeekly)

\* one turn of the loop of plot_weekly_activity
WeeklyActivityBody ==
  /\ plot = "weekly_activity"
  /\ pc = "loading"
  /\ WeeklyActivityTry(countries[idx + 1],
                       calculate_weekly_data(files[countries[idx + 1]]))
  /\ idx' = idx + 1
  /\ visited' = Append(visited, countries[idx + 1])
  /\ UNCHANGED <<files, countries, plot, window_size, data_series, daily,
                 weekly, rolling, runs>>

\* the four plot functions over the three countries
InitLoop ==
  /\ countries = Countries
  /\ files \in [{Countries[i] : i \in 1..Len(Countries)} -> LoopFiles]
  /\ plot \in Plots
  /\ window_size \in
       IF plot \in {"daily_activity", "percentage_change"}
       THEN {1, DefaultWindow} ELSE {DefaultWindow}
  /\ data_series = <<>>
  /\ pc = "loading"
  /\ InitCalls
  /\ InitLoopVars

NextLoop ==
  \/ DailyActivityBody
  \/ DailyRawActivityBody
  \/ PercentageChangeBody
  \/ WeeklyActivityBody

SpecLoop == InitLoop /\ [][NextLoop]_vars

\* plot_percentage_change over one country, for every input file
InitPct ==
  /\ countries = <<Countries[1]>>
  /\ files \in [{Countries[1]} -> InputFiles]
  /\ plot = "percentage_change"
  /\ window_size \in 1..MaxWindow \cup {DefaultWindow}
  /\ data_series = <<>>
  /\ pc = "loading"
  /\ InitCalls
  /\ InitLoopVars

NextPct == PercentageChangeBody

SpecPct == InitPct /\ [][NextPct]_vars

\* ------------------------------------------------- what the claims speak of

\* the file the two builders are called on, and its records
TheFile == files[countries[1]]
TheRecords == Records(TheFile.data)

\* a JSON object all of whose date keys name a day and all of whose counts
\* are integers
WellFormed(file) ==
  /\ file.kind = "object"
  /\ \A r \in Records(file.data) : IsDate(r.fecha_str) /\ r.cnt_type = "int"

DailyCalled == pc = "daily"
WeeklyCalled == pc \in {"weekly", "daily"}

\* the day of a record, as the ordinal of its date
DayOf(r) == ymd2ord(r.fecha_str[1], r.fecha_str[2], r.fecha_str[3])

Earliest(records) ==
  CHOOSE d \in {DayOf(r) : r \in records} : \A r \in records : d <= DayOf(r)

Latest(records) ==
  CHOOSE d \in {DayOf(r) : r \in records} : \A r \in records : d >= DayOf(r)

\* the users with a count > 0 among some records
ActiveUsers(records) == {r.user_id : r \in {x \in records : x.cnt > 0}}

\* every list of a returned dict is empty
AllEmpty(dict) == \A k \in DOMAIN dict : Len(dict[k]) = 0

\* ----------------------------------------------------------------- claims

\* fechas is exactly the days first, first + 1, ..., last
DaysFromTo(fechas, first, last) ==
  /\ Len(fechas) = last - first + 1
  /\ \A i \in 1..Len(fechas) : fechas[i] = first + i - 1

\* C1: for an input whose date keys are well-formed and that has at least
\* one date key, 'fechas' is exactly the calendar days from the earliest to
\* the latest input date, in order, one day apart, none missing or repeated.
C1_ContiguousDays ==
  (DailyCalled /\ WellFormed(TheFile) /\ TheRecords # {}) =>
     /\ daily.raised = "none"
     /\ DaysFromTo(daily.value.fechas, Earliest(TheRecords), Latest(TheRecords))

\* a series with a day that is no key of the input
C1_Witness ==
  /\ DailyCalled /\ WellFormed(TheFile)
  /\ Len(daily.value.fechas) >= 3
  /\ \E i \in 1..Len(daily.value.fechas) :
       \A r \in TheRecords : DayOf(r) # daily.value.fechas[i]

\* the totals of every day of a series, counted from the records
TotalsOf(series, records) ==
  /\ Len(series.raw_commits) = Len(series.fechas)
  /\ Len(series.raw_users) = Len(series.fechas)
  /\ \A i \in 1..Len(series.fechas) :
       /\ series.raw_commits[i] =
            SumCnt({r \in records : DayOf(r) = series.fechas[i]})
       /\ series.raw_users[i] =
            Cardinality(ActiveUsers({r \in records : DayOf(r) = series.fechas[i]}))

\* C2: for every date of the daily series raw_commits is the sum of all
\* users' counts for that date and raw_users the number of distinct users
\* with a count > 0; both are 0 for a date no user has a record for.
C2_DailyTotals ==
  (DailyCalled /\ WellFormed(TheFile)) =>
     /\ daily.raised = "none"
     /\ TotalsOf(daily.value, TheRecords)

\* one user with 2 commits on 2024-01-01 and 1 on 2024-01-03: a series of
\* three days, the middle one without any record
C2_Witness ==
  /\ DailyCalled /\ WellFormed(TheFile)
  /\ daily.value.fechas = <<ymd2ord(2024, 1, 1), ymd2ord(2024, 1, 2), ymd2ord(2024, 1, 3)>>
  /\ daily.value.raw_commits = <<2, 0, 1>>
  /\ daily.value.raw_users = <<1, 0, 1>>

\* two users active on one day, with three commits between them
C2_WitnessTwoUsers ==
  /\ DailyCalled /\ WellFormed(TheFile)
  /\ daily.value.raw_commits = <<3>>
  /\ daily.value.raw_users = <<2>>

\* C3: for w >= 1, entry i of the rolling average is the arithmetic mean of
\* the window ending at i, which holds i+1 elements while i < w-1 and w
\* elements from then on (indices here count from 1).
C3_RollingMean ==
  (pc = "rolled" /\ window_size >= 1) =>
     /\ rolling.raised = "none"
     /\ Len(rolling.value) = Len(data_series)
     /\ \A k \in 1..Len(data_series) :
          LET size == IF k - 1 < window_size - 1 THEN k ELSE window_size
              window == SubSeq(data_series, k - size + 1, k)
          IN  /\ k - size + 1 = Max2(1, k - window_size + 1)
              /\ rolling.value[k][2] > 0
              /\ rolling.value[k][1] * size = SumSeq(window) * rolling.value[k][2]

\* RollingAverage([1,2,3,4], 2) = [1.0, 1.5, 2.5, 3.5]
C3_Witness ==
  /\ pc = "rolled"
  /\ data_series = <<1, 2, 3, 4>>
  /\ window_size = 2
  /\ rolling.value = <<<<1, 1>>, <<3, 2>>, <<5, 2>>, <<7, 2>>>>

\* the ISO weeks of the records of the file, as week keys
WeeksOf(records) ==
  {WeekKey(isocalendar(DayOf(r))[1], isocalendar(DayOf(r))[2]) : r \in records}

InWeek(records, key) ==
  {r \in records :
     WeekKey(isocalendar(DayOf(r))[1], isocalendar(DayOf(r))[2]) = key}

\* C4: calculate_weekly_data returns exactly one entry per ISO week holding
\* an input record, with the sum of the week's counts as 'commits' and the
\* number of distinct users with a count > 0 in the week as 'active_users'.
C4_WeeklyBuckets ==
  (WeeklyCalled /\ WellFormed(TheFile)) =>
     /\ weekly.raised = "none"
     /\ Len(weekly.value.week_labels) = Cardinality(WeeksOf(TheRecords))
     /\ \A key \in WeeksOf(TheRecords) :
          \E i \in 1..Len(weekly.value.week_labels) :
             /\ weekly.value.week_labels[i] = key
             /\ weekly.value.commits[i] = SumCnt(InWeek(TheRecords, key))
             /\ weekly.value.active_users[i] =
                  Cardinality(ActiveUsers(InWeek(TheRecords, key)))

Loaded(country) == load_and_process_data(files[country], window_size).value

\* the body of the percentage-change loop has run for the first country
PctDone == plot = "percentage_change" /\ idx >= 1

\* the three cases of one change, for floats given as fractions
ChangeIsRight(today, yesterday, change) ==
  /\ change[2] > 0
  /\ yesterday[1] # 0 =>
       change[1] * yesterday[1] * today[2]
         = (today[1] * yesterday[2] - yesterday[1] * today[2]) * 100 * change[2]
  /\ (yesterday[1] = 0 /\ today[1] = 0) => change = <<0, 1>>
  /\ (yesterday[1] = 0 /\ today[1] # 0) => change = <<100, 1>>

ChangesAreRight(series, changes) ==
  \A k \in 1..(Len(series) - 1) :
     ChangeIsRight(series[k + 1], series[k], changes[k])

\* C6: for every index i >= 1 of the rolling series the change is
\* (today - yesterday) / yesterday * 100 when yesterday # 0, is 0 when both
\* are 0, and is the sentinel 100 when yesterday = 0 and today # 0.
C6_PercentageChange ==
  PctDone =>
     /\ pc # "aborted"
     /\ ChangesAreRight(Loaded(countries[1]).commits_rolling_avg,
                        all_data[countries[1]].pct_change)

\* a series going 0, 0, nonzero gives the changes [0, 100]
C6_Witness ==
  /\ PctDone
  /\ pc # "aborted"
  /\ all_data[countries[1]].pct_change = <<<<0, 1>>, <<100, 1>>>>

\* a series that halves gives the change [-50]
C6_WitnessHalving ==
  /\ PctDone
  /\ all_data[countries[1]].pct_change = <<<<-50, 1>>>>

\* the entry is the source without its first day
AlignedToTail(source, entry) ==
  IF Len(source.fechas) >= 2
  THEN /\ Len(entry.fechas) = Len(source.fechas) - 1
       /\ Len(entry.pct_change) = Len(source.fechas) - 1
       /\ \A k \in 1..(Len(source.fechas) - 1) :
            entry.fechas[k] = source.fechas[k + 1]
  ELSE Len(entry.fechas) = 0 /\ Len(entry.pct_change) = 0

\* C7: the percentage-change series has one entry per day after the first:
\* n-1 entries for a source of length n >= 2, entry k dated as index k+1 of
\* the source; for a source of length 0 or 1 dates and values are empty and
\* no error is raised.
C7_PctAlignment ==
  PctDone =>
     /\ pc # "aborted"
     /\ countries[1] \in DOMAIN all_data
     /\ AlignedToTail(Loaded(countries[1]), all_data[countries[1]])

\* a source of three days or more
C7_Witness ==
  /\ PctDone
  /\ pc # "aborted"
  /\ Len(all_data[countries[1]].fechas) >= 2
  /\ all_data[countries[1]].fechas[1] = Loaded(countries[1]).fechas[2]

\* a source of exactly one day
C7_WitnessOneDay ==
  /\ PctDone
  /\ Len(Loaded(countries[1]).fechas) = 1
  /\ Len(all_data[countries[1]].fechas) = 0

\* the file is missing or is not parsable JSON
FailedRead(file) == file.kind \in {"missing", "unparsable"}

\* C8: when the input file is missing or not parsable JSON, both builders
\* return a result whose every list is empty and no exception reaches the
\* caller.
C8_FailedReadIsEmpty ==
  FailedRead(TheFile) =>
     /\ WeeklyCalled =>
          /\ weekly.raised = "none"
          /\ DOMAIN weekly.value =
               {"fechas", "commits", "active_users", "week_labels"}
          /\ AllEmpty(weekly.value)
     /\ DailyCalled =>
          /\ daily.raised = "none"
          /\ DOMAIN daily.value =
               {"fechas", "commits_rolling_avg", "users_rolling_avg",
                "raw_commits", "raw_users"}
          /\ AllEmpty(daily.value)

\* both builders have been called on a file that is not JSON
C8_Witness ==
  /\ DailyCalled
  /\ TheFile.kind = "unparsable"
  /\ weekly.raised = "none"
  /\ daily.raised = "none"

\* the load of a country fails: no file, no JSON, or a key that names no day
LoadFails(country) == ~WellFormed(files[country])

\* what loading one country on its own gives the running plot function
Alone(country) ==
  IF plot = "daily_activity" THEN Loaded(country)
  ELSE IF plot = "daily_raw_activity"
  THEN load_and_process_data(files[country], DefaultWindow).value
  ELSE IF plot = "percentage_change" THEN PercentageChange(Loaded(country))
  ELSE calculate_weekly_data(files[country]).value

\* C9: whatever countries fail to load, the loop goes through every country
\* in order, all_data ends with one entry per requested country, a failed
\* country's entry is an empty series and any other country's entry is what
\* loading it alone produces.
C9_LoopIsolation ==
  plot \in Plots =>
     /\ pc # "aborted"
     /\ pc = "plotting" <=> idx = Len(countries)
     /\ visited = SubSeq(countries, 1, idx)
     /\ DOMAIN all_data = {countries[i] : i \in 1..idx}
     /\ \A i \in 1..idx :
          /\ LoadFails(countries[i]) => AllEmpty(all_data[countries[i]])
          /\ ~LoadFails(countries[i]) => all_data[countries[i]] = Alone(countries[i])

\* the first two countries fail, in two ways, and the third has a series
C9_Witness ==
  /\ plot \in Plots
  /\ pc = "plotting"
  /\ files[countries[1]].kind = "unparsable"
  /\ files[countries[2]].kind = "missing"
  /\ Len(all_data[countries[3]].fechas) = 3

\* C10: calling the rolling average with a window size w <= 0 fails with an
\* error and returns no series.
C10_NonPositiveWindowFails ==
  (pc = "rolled" /\ window_size <= 0) => rolling.raised # "none"

\* a week of the records in which somebody committed
ActiveWeek(records, key) ==
  SumCnt(InWeek(records, key)) > 0 \/ ActiveUsers(InWeek(records, key)) # {}

\* the index of a label in the weekly series, 0 when it is not there
IndexOfWeek(series, key) ==
  IF \E i \in 1..Len(series.week_labels) : series.week_labels[i] = key
  THEN CHOOSE i \in 1..Len(series.week_labels) : series.week_labels[i] = key
  ELSE 0

WeekBefore(a, b) ==
  \/ WeekKeyYear(a) < WeekKeyYear(b)
  \/ WeekKeyYear(a) = WeekKeyYear(b) /\ WeekKeyNum(a) < WeekKeyNum(b)

NoRecords(file) == file.kind = "object" /\ Records(file.data) = {}

DailyKeys ==
  {"fechas", "commits_rolling_avg", "users_rolling_avg", "raw_commits", "raw_users"}

WeeklyKeys == {"fechas", "commits", "active_users", "week_labels"}

\* C13: for the empty object {} and for an object in which no user has a
\* date record, load_and_process_data returns five empty lists and
\* calculate_weekly_data four empty lists, and no error reaches the caller.
C13_EmptyInputIsEmpty ==
  NoRecords(TheFile) =>
     /\ WeeklyCalled =>
          /\ weekly.raised = "none"
          /\ DOMAIN weekly.value = WeeklyKeys
          /\ AllEmpty(weekly.value)
     /\ DailyCalled =>
          /\ daily.raised = "none"
          /\ DOMAIN daily.value = DailyKeys
          /\ AllEmpty(daily.value)

\* both builders have returned for the file {}
C13_Witness ==
  /\ DailyCalled
  /\ TheFile.kind = "object"
  /\ DOMAIN TheFile.data = {}
  /\ daily.raised = "none" /\ AllEmpty(daily.value)
  /\ weekly.raised = "none" /\ AllEmpty(weekly.value)

\* both builders have returned for users none of whom has a date record
C13_WitnessUsersWithoutRecords ==
  /\ DailyCalled
  /\ NoRecords(TheFile)
  /\ DOMAIN TheFile.data = Users
  /\ daily.raised = "none" /\ AllEmpty(daily.value)
  /\ weekly.raised = "none" /\ AllEmpty(weekly.value)

\* C14: for every sequence s, the empty one included, and every w >= 1 the
\* rolling average has exactly len(s) entries; the empty sequence gives the
\* empty sequence.
C14_RollingLength ==
  (pc = "rolled" /\ window_size >= 1) =>
     /\ rolling.raised = "none"
     /\ Len(rolling.value) = Len(data_series)
     /\ data_series = <<>> => rolling.value = <<>>

\* a series longer than the window: its first entry has a shorter window
C14_Witness ==
  /\ pc = "rolled"
  /\ window_size = 2
  /\ Len(data_series) = 3
  /\ Len(rolling.value) = 3

\* the empty series
C14_WitnessEmpty ==
  /\ pc = "rolled"
  /\ window_size >= 1
  /\ data_series = <<>>
  /\ rolling.value = <<>>

\* a window longer than the series
C14_WitnessWideWindow ==
  /\ pc = "rolled"
  /\ window_size = 2
  /\ Len(data_series) = 1
  /\ Len(rolling.value) = 1

\* avg[k] is the mean of the window of `series` ending at k, for w >= 1
IsRollingMean(avg, series, w) ==
  \A k \in 1..Len(series) :
     /\ avg[k][2] > 0
     /\ avg[k][1] * (k - Max2(1, k - w + 1) + 1)
          = SumSeq(SubSeq(series, Max2(1, k - w + 1), k)) * avg[k][2]

\* the five lists have one length, and the rolling lists average the raw ones
AlignedSeries(series, w) ==
  /\ Len(series.raw_commits) = Len(series.fechas)
  /\ Len(series.raw_users) = Len(series.fechas)
  /\ Len(series.commits_rolling_avg) = Len(series.fechas)
  /\ Len(series.users_rolling_avg) = Len(series.fechas)
  /\ w >= 1 => IsRollingMean(series.commits_rolling_avg, series.raw_commits, w)
  /\ w >= 1 => IsRollingMean(series.users_rolling_avg, series.raw_users, w)

\* C15: in every result of load_and_process_data the lists fechas,
\* raw_commits, raw_users, commits_rolling_avg and users_rolling_avg have the
\* same length, and for a window size w >= 1 the two rolling lists are the
\* rolling averages of the gap-filled raw_commits and raw_users, index by
\* index.
C15_AlignedRollingSeries ==
  DailyCalled =>
     /\ daily.raised = "none"
     /\ DOMAIN daily.value = DailyKeys
     /\ AlignedSeries(daily.value, window_size)

\* commits 2, 0 (a filled day), 1 by one user, with a window of 2
C15_Witness ==
  /\ DailyCalled
  /\ window_size = 2
  /\ daily.value.raw_commits = <<2, 0, 1>>
  /\ daily.value.commits_rolling_avg = <<<<2, 1>>, <<1, 1>>, <<1, 2>>>>
  /\ daily.value.raw_users = <<1, 0, 1>>
  /\ daily.value.users_rolling_avg = <<<<1, 1>>, <<1, 2>>, <<1, 2>>>>

\* C16: two runs of load_and_process_data on the same content with the same
\* window size return the same series (dates, raw values, rolling values),
\* whatever the order of the users and of the dates in the file is.
C16_DailyDeterminism ==
  \A i, j \in 1..Len(runs) : runs[i].result = runs[j].result

\* two runs that met the records in different orders, the first of them
\* the later date first, and returned a series of three days or more
C16_Witness ==
  /\ pc = "ran twice"
  /\ runs[1].items # runs[2].items
  /\ Len(runs[1].items) >= 2
  /\ IsDate(runs[1].items[1].fecha_str) /\ IsDate(runs[1].items[2].fecha_str)
  /\ strptime(runs[1].items[1].fecha_str) > strptime(runs[1].items[2].fecha_str)
  /\ runs[1].result.raised = "none"
  /\ Len(runs[1].result.value.fechas) >= 3

\* every date of the records is a date of the series
EveryDateKept(fechas, records) ==
  \A r \in records : \E i \in 1..Len(fechas) : fechas[i] = DayOf(r)

\* C17: for every input with well-formed dates, every date that is a key of
\* some user is in 'fechas', and the sum of raw_commits over the series is
\* the sum of all counts of all users.
C17_NoDataDropped ==
  (DailyCalled /\ WellFormed(TheFile)) =>
     /\ daily.raised = "none"
     /\ EveryDateKept(daily.value.fechas, TheRecords)
     /\ SumSeq(daily.value.raw_commits) = SumCnt(TheRecords)

\* two records of 2 commits each on different days: 4 commits in the series
C17_Witness ==
  /\ DailyCalled /\ WellFormed(TheFile)
  /\ Cardinality(TheRecords) = 2
  /\ Len(daily.value.fechas) >= 2
  /\ SumSeq(daily.value.raw_commits) = 4

\* a record of count 0 on the first day of the series
C17_WitnessZeroCount ==
  /\ DailyCalled /\ WellFormed(TheFile)
  /\ Len(daily.value.fechas) >= 2
  /\ daily.value.raw_commits[1] = 0
  /\ SumSeq(daily.value.raw_commits) > 0

\* C18: for every input with well-formed dates the commits of the weekly
\* series add up to the raw commits of the daily series, and the weekly
\* series is empty exactly when the daily series is.
C18_DailyWeeklyAgree ==
  (DailyCalled /\ WellFormed(TheFile)) =>
     /\ daily.raised = "none" /\ weekly.raised = "none"
     /\ SumSeq(weekly.value.commits) = SumSeq(daily.value.raw_commits)
     /\ Len(weekly.value.week_labels) = 0 <=> Len(daily.value.fechas) = 0

\* processing the record raises: its key names no day, or its count is a str
RecordRaises(r) == ~IsDate(r.fecha_str) \/ r.cnt_type # "int"

\* C19: when processing one record raises, load_and_process_data and
\* calculate_weekly_data return entirely empty series, however many valid
\* records the file has besides: never the aggregation of a part of them.
C19_AllOrNothing ==
  (TheFile.kind = "object" /\ \E r \in TheRecords : RecordRaises(r)) =>
     /\ WeeklyCalled =>
          /\ weekly.raised = "none"
          /\ DOMAIN weekly.value = WeeklyKeys
          /\ AllEmpty(weekly.value)
     /\ DailyCalled =>
          /\ daily.raised = "none"
          /\ DOMAIN daily.value = DailyKeys
          /\ AllEmpty(daily.value)

\* a key that names no day next to a valid record with commits
C19_Witness ==
  /\ DailyCalled
  /\ TheFile.kind = "object"
  /\ \E r \in TheRecords : ~IsDate(r.fecha_str)
  /\ \E r \in TheRecords : ~RecordRaises(r) /\ r.cnt > 0
  /\ AllEmpty(daily.value) /\ AllEmpty(weekly.value)

\* a count that is a string next to a valid record with commits
C19_WitnessStringCount ==
  /\ DailyCalled
  /\ TheFile.kind = "object"
  /\ \E r \in TheRecords : r.cnt_type = "str"
  /\ \E r \in TheRecords : ~RecordRaises(r) /\ r.cnt > 0
  /\ AllEmpty(daily.value) /\ AllEmpty(weekly.value)

\* 0 <= users[i] <= commits[i] at every index
UsersWithinCommits(users, commits) ==
  /\ Len(users) = Len(commits)
  /\ \A i \in 1..Len(users) : 0 <= users[i] /\ users[i] <= commits[i]

\* in every week bucket the loops of calculate_weekly_data fill, the active
\* users are no more than the commits
BucketsWithin(by_week, users_by_week) ==
  \A k \in DOMAIN by_week :
     0 <= ActiveLen(users_by_week, k) /\ ActiveLen(users_by_week, k) <= by_week[k]

WeekBucketsWithin(keyed) ==
  BucketsWithin(commits_by_week(keyed), active_users_by_week(keyed))

\* C20: for an input whose counts are non-negative integers every entry of
\* the daily series has 0 <= raw_users <= raw_commits and every entry of the
\* weekly series has 0 <= active_users <= commits, each active user having
\* given the bucket at least one commit.
C20_UsersWithinCommits ==
  (WellFormed(TheFile) /\ \A r \in TheRecords : r.cnt >= 0) =>
     /\ DailyCalled =>
          UsersWithinCommits(daily.value.raw_users, daily.value.raw_commits)
     /\ WeeklyCalled =>
          /\ UsersWithinCommits(weekly.value.active_users, weekly.value.commits)
          /\ WeekBucketsWithin(WithWeekKey(TheRecords))

\* a day on which two users made one commit each, and a filled day
C20_Witness ==
  /\ DailyCalled /\ WellFormed(TheFile)
  /\ \E i \in 1..Len(daily.value.fechas) :
       daily.value.raw_users[i] = 2 /\ daily.value.raw_commits[i] = 2

\* a day whose only record has count 0: nobody is active on it
C20_WitnessZeroCount ==
  /\ DailyCalled /\ WellFormed(TheFile)
  /\ Cardinality(TheRecords) = 1
  /\ daily.value.raw_users = <<0>>
  /\ daily.value.raw_commits = <<0>>

\* a week in which two users committed, on different days
C20_WitnessWeek ==
  /\ DailyCalled /\ WellFormed(TheFile)
  /\ Len(daily.value.fechas) >= 2
  /\ \E key \in WeeksOf(TheRecords) :
       Cardinality(ActiveUsers(InWeek(TheRecords, key))) = 2

====
